---- MODULE Spec2Model ----
(***************************************************************************)
(* Model of the type-directed literal reader of dev/src/lobsterreader.cpp: *)
(* ValueParser (Parse, ParseFactor, ParseElems, ExpectType, Expect,        *)
(* Gobble) and ParseData, built with USE_EXCEPTION_HANDLING.               *)
(*                                                                         *)
(* The recursion ParseFactor <-> ParseElems is an explicit control stack   *)
(* `ctl` of frames.  The token source is read on demand, as Lex does: each *)
(* lex.Next() draws the next token of the input, so the input is the       *)
(* sequence `inp` of tokens lexed so far.  The payload of an INT, FLOAT or *)
(* STR token is its position in the input, which makes all literal values  *)
(* of one input distinct.                                                  *)
(***************************************************************************)
EXTENDS Integers, Sequences, FiniteSets, TLC

VARIABLES tok, inp, nwild, stack, allocated, heap, ctl, mode, err, thrown, rb, ret, target

vars == <<tok, inp, nwild, stack, allocated, heap, ctl, mode, err, thrown, rb, ret, target>>

\* Longest input, counted in tokens before the end-of-file token.
MaxTokens == 8

\* Longest part of the input that is read while a value is parsed against the
\* wildcard type.
MaxWild == 4

\* Largest field count read from the TypeInfo of a type that has none.
MaxAnyLen == 1

-----------------------------------------------------------------------------
(* Tokens *)

Tok(k, v, s) == [k |-> k, v |-> v, s |-> s]

EOFTok == Tok("T_ENDOFFILE", 0, "")

PlainKinds ==
    {"T_INT", "T_FLOAT", "T_STR", "T_NIL", "T_MINUS", "T_LEFTBRACKET",
     "T_RIGHTBRACKET", "T_LEFTCURLY", "T_RIGHTCURLY", "T_COMMA", "T_LINEFEED"}

IdentNames == {"P", "Q", "S", "A"}

\* The tokens the lexer can deliver at input position p.
TokensAt(p) ==
    {Tok(k, p, "") : k \in PlainKinds} \cup {Tok("T_IDENT", p, s) : s \in IdentNames}
        \cup {EOFTok}

\* lex.Next(): the tokens that can follow; end-of-file repeats for ever.
NextToks ==
    IF tok.k = "T_ENDOFFILE" \/ Len(inp) >= MaxTokens \/ nwild >= MaxWild
    THEN {EOFTok}
    ELSE TokensAt(Len(inp) + 1)

\* lex.Next() can raise a lexical error instead of delivering a token.
CanLexErr == tok.k # "T_ENDOFFILE" /\ Len(inp) < MaxTokens /\ nwild < MaxWild

-----------------------------------------------------------------------------
(* Type registry: the type table the VM hands to the parser. *)

TYPE_ELEM_INT == "int"
TYPE_ELEM_FLOAT == "float"
TYPE_ELEM_STRING == "string"
TYPE_ELEM_ANY == "any"

TI(t, subt, len, elemtypes, enumidx, name) ==
    [t |-> t, subt |-> subt, len |-> len, elemtypes |-> elemtypes,
     enumidx |-> enumidx, name |-> name]

TypeTable ==
    [o \in {"int", "float", "string", "any", "nilstr", "E", "vint", "vstr", "vS",
            "S", "P", "Q"} |->
        CASE o = "int"    -> TI("V_INT", "", 0, <<>>, -1, "")
          [] o = "float"  -> TI("V_FLOAT", "", 0, <<>>, -1, "")
          [] o = "string" -> TI("V_STRING", "", 0, <<>>, -1, "")
          [] o = "any"    -> TI("V_ANY", "", 0, <<>>, -1, "")
          [] o = "nilstr" -> TI("V_NIL", "string", 0, <<>>, -1, "")
          [] o = "E"      -> TI("V_INT", "", 0, <<>>, 0, "")
          [] o = "vint"   -> TI("V_VECTOR", "int", 0, <<>>, -1, "")
          [] o = "vstr"   -> TI("V_VECTOR", "string", 0, <<>>, -1, "")
          [] o = "vS"     -> TI("V_VECTOR", "S", 0, <<>>, -1, "")
          [] o = "S"      -> TI("V_STRUCT_S", "", 2, <<"int", "nilstr">>, -1, "S")
          [] o = "P"      -> TI("V_CLASS", "", 2, <<"int", "float">>, -1, "P")
          [] o = "Q"      -> TI("V_CLASS", "", 1, <<"vstr">>, -1, "Q")]

TypeOffs == DOMAIN TypeTable

GetTypeInfo(typeoff) == TypeTable[typeoff]

IsStruct(t) == t = "V_STRUCT_S"

IsUDT(t) == t = "V_CLASS" \/ IsStruct(t)

UDTNames == {TypeTable[o].name : o \in {x \in TypeOffs : IsUDT(TypeTable[x].t)}}

\* vm.LookupEnum(name, enumidx): the enum of the table has one value, A.
LookupEnum(name, enumidx) == IF enumidx = 0 /\ name = "A" THEN {7} ELSE {}

\* ti.len: defined for a class or struct; for any other TypeInfo the read
\* yields whatever the type table holds there.
LenOf(typeoff) ==
    IF IsUDT(GetTypeInfo(typeoff).t) THEN {GetTypeInfo(typeoff).len} ELSE 0 .. MaxAnyLen

\* vm.StructName(ti): defined for a class or struct only.
StructName(typeoff) ==
    IF IsUDT(GetTypeInfo(typeoff).t) THEN {GetTypeInfo(typeoff).name} ELSE UDTNames

\* ti.GetElemOrParent(i) / ti.elemtypes[i]: slot i (from 0) of a class or
\* struct; for any other TypeInfo an arbitrary entry of the type table.
GetElemOrParent(typeoff, i) ==
    IF IsUDT(GetTypeInfo(typeoff).t) /\ i < GetTypeInfo(typeoff).len
    THEN {GetTypeInfo(typeoff).elemtypes[i + 1]}
    ELSE TypeOffs

-----------------------------------------------------------------------------
(* Values and heap objects *)

Val(t, v) == [t |-> t, v |-> v]

IntV(i) == Val("int", i)
FloatV(f) == Val("float", f)
NilVal == Val("nil", 0)
RefV(o) == Val("ref", o)
ErrStr == Val("errstr", 0)

NoErr == [msg |-> "", x |-> "", y |-> ""]
Error(m, x, y) == [msg |-> m, x |-> x, y |-> y]

ErrLex == Error("lexical error", "", "")

\* BaseTypeName(needed) required, BaseTypeName(given) given
ErrType(needed, given) == Error("type required", needed, given)

\* RefObj::Dec: the count drops by one and an object whose count is no
\* longer positive is destroyed, which releases each element it holds.
RECURSIVE DecObj(_, _)
RECURSIVE DecElems(_, _, _)
DecElems(h, vals, i) ==
    IF i > Len(vals) THEN h
    ELSE DecElems(IF vals[i].t = "ref" THEN DecObj(h, vals[i].v) ELSE h, vals, i + 1)

DecObj(h, o) ==
    LET h1 == [h EXCEPT ![o].refc = @ - 1] IN
    IF h1[o].refc <= 0
    THEN DecElems([h1 EXCEPT ![o].freed = @ + 1], h1[o].elems, 1)
    ELSE h1

\* vm.NewString / vm.NewObject / vm.NewVec followed by Init(..., inc):
\* a fresh object with reference count 1 holding `elems`; with inc = false
\* the elements are copied without raising their counts.
NewObj(kind, typeoff, len, elems) ==
    [kind |-> kind, typeoff |-> typeoff, len |-> len, elems |-> elems,
     refc |-> 1, freed |-> 0]

IncElems(h, vals) ==
    [o \in DOMAIN h |->
        [h[o] EXCEPT !.refc = @ + Cardinality({i \in 1 .. Len(vals) :
                                               vals[i] = RefV(o)})]]

InitObj(h, obj, inc) ==
    Append(IF inc THEN IncElems(h, obj.elems) ELSE h, obj)

-----------------------------------------------------------------------------
(* Control stack *)

Frame(fn, pc, typeoff, push, end, numelems, start) ==
    [fn |-> fn, pc |-> pc, typeoff |-> typeoff, push |-> push, end |-> end,
     numelems |-> numelems, stack_start |-> start, sname |-> "", nlit |-> 0,
     stack_in |-> stack, ledger_in |-> allocated, heap_in |-> Len(heap),
     tok_in |-> Len(inp)]

\* The callee f starts after a lex.Next() of its caller: its first token is
\* the one that call delivers.
AfterNext(f) == [f EXCEPT !.tok_in = @ + 1]

top == ctl[Len(ctl)]

\* A value is being parsed against the wildcard type.
Wild == \E i \in DOMAIN ctl : ctl[i].typeoff = TYPE_ELEM_ANY

Lexed == IF Wild THEN nwild + 1 ELSE nwild

At(fn, pc) == mode = "run" /\ ctl # <<>> /\ top.fn = fn /\ top.pc = pc

Pop == SubSeq(ctl, 1, Len(ctl) - 1)

SetTop(f) == [ctl EXCEPT ![Len(ctl)] = f]

Goto(pc) == SetTop([top EXCEPT !.pc = pc])

Call(pc, f) == Append(Goto(pc), f)

RaiseAndResume(e) ==
    /\ err' = e
    /\ UNCHANGED <<tok, inp, nwild, stack, allocated, heap, ctl, mode, thrown, rb, ret, target>>

\* lex.Error(...): the exception unwinds every frame up to ParseData.
Raise(e) ==
    /\ mode' = "catch"
    /\ err' = e
    /\ thrown' = ctl
    /\ ctl' = <<>>
    /\ UNCHANGED <<tok, inp, nwild, stack, allocated, heap, rb, ret, target>>

\* The same after a lex.Next() that delivered t.
RaiseAfter(t, e) ==
    /\ tok' = t
    /\ inp' = Append(inp, t)
    /\ nwild' = Lexed
    /\ mode' = "catch"
    /\ err' = e
    /\ thrown' = ctl
    /\ ctl' = <<>>
    /\ UNCHANGED <<stack, allocated, heap, rb, ret, target>>

\* A step that calls lex.Next() once and then sets stack, ledger, heap, ctl.
Step(s, a, h, c) ==
    \/ \E t \in NextToks :
        /\ tok' = t
        /\ inp' = Append(inp, t)
        /\ nwild' = Lexed
        /\ stack' = s
        /\ allocated' = a
        /\ heap' = h
        /\ ctl' = c
        /\ UNCHANGED <<mode, err, thrown, rb, ret, target>>
    \/ CanLexErr /\ Raise(ErrLex)

\* A step that does not touch the lexer.
Quiet(s, a, h, c) ==
    /\ stack' = s
    /\ allocated' = a
    /\ heap' = h
    /\ ctl' = c
    /\ UNCHANGED <<tok, inp, nwild, mode, err, thrown, rb, ret, target>>

-----------------------------------------------------------------------------
Init ==
    /\ tok \in TokensAt(1)
    /\ inp = <<tok>>
    /\ nwild = 0
    /\ stack = <<>>
    /\ allocated = <<>>
    /\ heap = <<>>
    /\ target \in TypeOffs
    /\ ctl = <<Frame("Parse", "start", target, TRUE, "", -1, 0)>>
    /\ mode = "run"
    /\ err = NoErr
    /\ thrown = <<>>
    /\ rb = 0
    /\ ret = <<>>

-----------------------------------------------------------------------------
(* ExpectType, Expect, and the rules of ParseFactor and ParseElems *)

\* ExpectType(given, needed) passes.
ExpectTypeOK(given, needed) == given = needed \/ needed = "V_ANY"

ExpectAnything(k, t) == TRUE

\* Expect(t) passes on token kind k.
ExpectOK(k, t) == k = t

ErrExpected(t, k) == Error("expected, found", t, k)

ErrUnaryMinus == Error("unary minus: numeric value expected", "", "")

ErrNoDefault == Error("no default value exists for missing struct elements", "", "")

GobbleNever(k, t) == FALSE

\* Gobble(t) advances on token kind k.
GobbleTakes(k, t) == k = t

NegateAlways(typeoff) == TRUE

\* The switch of the T_MINUS case: the type handles whose value is negated.
NegateOK(typeoff) == typeoff = TYPE_ELEM_INT \/ typeoff = TYPE_ELEM_FLOAT

\* stack.back() * -1
Negate(v) == [v EXCEPT !.v = @ * (-1)]

\* The element is beyond the declared count: NumElems() == numelems.
IsExtra(n, numelems) == n = numelems

HasDefaultAlways(t) == TRUE

\* The padding switch: the default of a missing slot, if its kind has one.
HasDefault(t) == t \in {"V_INT", "V_FLOAT", "V_NIL"}

DefaultValue(t) ==
    CASE t = "V_INT" -> IntV(0)
      [] t = "V_FLOAT" -> FloatV(0)
      [] OTHER -> NilVal

\* Width of one vector element in stack slots.
RecordNothing(a, o) == a

\* allocated.push_back(o)
Record(a, o) == Append(a, o)

VecWidthOne(sti) == 1

VecWidth(sti) == IF IsStruct(sti.t) THEN sti.len ELSE 1

NumElems(f) == Len(stack) - f.stack_start

PushAlways(push, v) == Append(stack, v)

PushIf(push, v) == IF push THEN Append(stack, v) ELSE stack

vt == GetTypeInfo(top.typeoff).t

-----------------------------------------------------------------------------
(* Parse *)

\* Parse: ParseFactor(typeoff, true)
Parse_Call ==
    /\ At("Parse", "start")
    /\ Quiet(stack, allocated, heap,
             Call("gobble", Frame("ParseFactor", "start", top.typeoff, TRUE, "", -1, Len(stack))))

\* Parse: Gobble(T_LINEFEED), the line break is there
Parse_Gobble ==
    /\ At("Parse", "gobble")
    /\ GobbleTakes(tok.k, "T_LINEFEED")
    /\ Step(stack, allocated, heap, Goto("expect"))

\* Parse: Expect(T_ENDOFFILE)
Parse_Expect ==
    /\ \/ At("Parse", "gobble") /\ ~GobbleTakes(tok.k, "T_LINEFEED")
       \/ At("Parse", "expect")
    /\ IF ExpectOK(tok.k, "T_ENDOFFILE")
       THEN Step(stack, allocated, heap, Goto("assert"))
       ELSE Raise(ErrExpected("T_ENDOFFILE", tok.k))

\* Parse: assert(stack.size() == 1) holds; Push(sp, stack.back()), and
\* ParseData: Push(sp, NilVal()).
Parse_Push ==
    /\ At("Parse", "assert")
    /\ Len(stack) = 1
    /\ ret' = <<stack[Len(stack)], NilVal>>
    /\ mode' = "done"
    /\ ctl' = <<>>
    /\ UNCHANGED <<tok, inp, nwild, stack, allocated, heap, err, thrown, rb, target>>

\* Parse: assert(stack.size() == 1) fails in a build that keeps assertions.
Parse_AssertFail ==
    /\ At("Parse", "assert")
    /\ Len(stack) # 1
    /\ mode' = "aborted"
    /\ ctl' = <<>>
    /\ UNCHANGED <<tok, inp, nwild, stack, allocated, heap, err, thrown, rb, ret, target>>

\* The same in a build without assertions: stack.back() is pushed, and on an
\* empty stack it is whatever lies before the vector's storage.
Parse_PushUnchecked ==
    /\ At("Parse", "assert")
    /\ Len(stack) # 1
    /\ \E v \in (IF stack # <<>> THEN {stack[Len(stack)]} ELSE {NilVal, IntV(0)}) :
        ret' = <<v, NilVal>>
    /\ mode' = "done"
    /\ ctl' = <<>>
    /\ UNCHANGED <<tok, inp, nwild, stack, allocated, heap, err, thrown, rb, target>>

-----------------------------------------------------------------------------
(* ParseFactor *)

PF_Int ==
    /\ At("ParseFactor", "start")
    /\ tok.k = "T_INT"
    /\ IF ExpectTypeOK("V_INT", vt)
       THEN Step(PushIf(top.push, IntV(tok.v)), allocated, heap, Pop)
       ELSE Raise(ErrType(vt, "V_INT"))

PF_Float ==
    /\ At("ParseFactor", "start")
    /\ tok.k = "T_FLOAT"
    /\ IF ExpectTypeOK("V_FLOAT", vt)
       THEN Step(PushIf(top.push, FloatV(tok.v)), allocated, heap, Pop)
       ELSE Raise(ErrType(vt, "V_FLOAT"))

PF_Str ==
    /\ At("ParseFactor", "start")
    /\ tok.k = "T_STR"
    /\ IF ExpectTypeOK("V_STRING", vt)
       THEN IF top.push
            THEN Step(Append(stack, RefV(Len(heap) + 1)),
                      Record(allocated, Len(heap) + 1),
                      InitObj(heap, NewObj("string", TYPE_ELEM_STRING, tok.v, <<>>), FALSE),
                      Pop)
            ELSE Step(stack, allocated, heap, Pop)
       ELSE Raise(ErrType(vt, "V_STRING"))

PF_Nil ==
    /\ At("ParseFactor", "start")
    /\ tok.k = "T_NIL"
    /\ IF ExpectTypeOK("V_NIL", vt)
       THEN Step(PushIf(top.push, NilVal), allocated, heap, Pop)
       ELSE Raise(ErrType(vt, "V_NIL"))

\* case T_MINUS: lex.Next(); ParseFactor(typeoff, push);
PF_Minus ==
    /\ At("ParseFactor", "start")
    /\ tok.k = "T_MINUS"
    /\ Step(stack, allocated, heap,
            Call("neg", AfterNext(Frame("ParseFactor", "start", top.typeoff, top.push, "",
                                        -1, Len(stack)))))

\* case T_MINUS, after the factor returned: negate stack.back() in place.
PF_Negate ==
    /\ At("ParseFactor", "neg")
    /\ IF ~top.push
       THEN Quiet(stack, allocated, heap, Pop)
       ELSE IF NegateOK(top.typeoff)
            THEN Quiet([stack EXCEPT ![Len(stack)] = Negate(@)], allocated, heap, Pop)
            ELSE Raise(ErrUnaryMinus)

\* case T_LEFTBRACKET
PF_LeftBracket ==
    /\ At("ParseFactor", "start")
    /\ tok.k = "T_LEFTBRACKET"
    /\ IF ExpectTypeOK("V_VECTOR", vt)
       THEN Step(stack, allocated, heap,
                 Call("ret", AfterNext(Frame("ParseElems", "gobble", top.typeoff, top.push,
                                             "T_RIGHTBRACKET", -1, Len(stack)))))
       ELSE Raise(ErrType(vt, "V_VECTOR"))

\* case T_IDENT, the target is an enum-backed int type
PF_Enum ==
    /\ At("ParseFactor", "start")
    /\ tok.k = "T_IDENT"
    /\ vt = "V_INT" /\ GetTypeInfo(top.typeoff).enumidx >= 0
    /\ IF LookupEnum(tok.s, GetTypeInfo(top.typeoff).enumidx) = {}
       THEN Raise(Error("unknown enum value", tok.s, ""))
       ELSE \E i \in LookupEnum(tok.s, GetTypeInfo(top.typeoff).enumidx) :
                Step(PushIf(top.push, IntV(i)), allocated, heap, Pop)

\* case T_IDENT otherwise: the kind check, sname = lex.sattr, lex.Next()
PF_Ident ==
    /\ At("ParseFactor", "start")
    /\ tok.k = "T_IDENT"
    /\ ~(vt = "V_INT" /\ GetTypeInfo(top.typeoff).enumidx >= 0)
    /\ IF ~IsUDT(vt) /\ vt # "V_ANY"
       THEN Raise(Error("class/struct type required", vt, ""))
       ELSE Step(stack, allocated, heap, SetTop([top EXCEPT !.pc = "curly", !.sname = tok.s]))

\* Expect(T_LEFTCURLY), the name check, and the call of ParseElems
PF_Curly ==
    /\ At("ParseFactor", "curly")
    /\ IF ~ExpectOK(tok.k, "T_LEFTCURLY")
       THEN Raise(ErrExpected("T_LEFTCURLY", tok.k))
       ELSE \/ \E t \in NextToks, name \in StructName(top.typeoff), len \in LenOf(top.typeoff) :
                IF name # top.sname
                THEN RaiseAfter(t, Error("class/struct type required, given", name, top.sname))
                ELSE /\ tok' = t
                     /\ inp' = Append(inp, t)
                     /\ nwild' = Lexed
                     /\ ctl' = Call("ret", AfterNext(Frame("ParseElems", "gobble", top.typeoff,
                                                           top.push, "T_RIGHTCURLY", len,
                                                           Len(stack))))
                     /\ UNCHANGED <<stack, allocated, heap, mode, err, thrown, rb, ret, target>>
            \/ CanLexErr /\ Raise(ErrLex)

\* default: lex.Error("illegal start of expression: ...")
PF_Illegal ==
    /\ At("ParseFactor", "start")
    /\ tok.k \notin {"T_INT", "T_FLOAT", "T_STR", "T_NIL", "T_MINUS", "T_LEFTBRACKET", "T_IDENT"}
    /\ Raise(Error("illegal start of expression", tok.k, ""))

\* ParseElems returned: break, and ParseFactor returns.
PF_Return ==
    /\ At("ParseFactor", "ret")
    /\ Quiet(stack, allocated, heap, Pop)

-----------------------------------------------------------------------------
(* ParseElems *)

\* Gobble(T_LINEFEED), the line break is there
PE_Gobble ==
    /\ At("ParseElems", "gobble")
    /\ GobbleTakes(tok.k, "T_LINEFEED")
    /\ Step(stack, allocated, heap, Goto("first"))

\* if (lex.token == end) lex.Next(); else the element loop
PE_First ==
    /\ \/ At("ParseElems", "gobble") /\ ~GobbleTakes(tok.k, "T_LINEFEED")
       \/ At("ParseElems", "first")
    /\ IF tok.k = top.end
       THEN Step(stack, allocated, heap, Goto("post"))
       ELSE Quiet(stack, allocated, heap, Goto("elem"))

\* One element: against the wildcard without pushing once the declared
\* count is reached, else against the element or slot type.
PE_Elem ==
    /\ At("ParseElems", "elem")
    /\ IF IsExtra(NumElems(top), top.numelems)
       THEN Quiet(stack, allocated, heap,
                  Call("sep", Frame("ParseFactor", "start", TYPE_ELEM_ANY, FALSE, "", -1, Len(stack))))
       ELSE \E eti \in (IF GetTypeInfo(top.typeoff).t = "V_VECTOR"
                        THEN {GetTypeInfo(top.typeoff).subt}
                        ELSE GetElemOrParent(top.typeoff, NumElems(top))) :
                Quiet(stack, allocated, heap,
                      Call("sep", Frame("ParseFactor", "start", eti, top.push, "", -1, Len(stack))))

\* After an element: a line break, the terminator, or a comma.
PE_Sep ==
    /\ At("ParseElems", "sep")
    /\ IF tok.k = "T_LINEFEED"
       THEN Step(stack, allocated, heap, SetTop([top EXCEPT !.pc = "haslf", !.nlit = @ + 1]))
       ELSE IF tok.k = top.end
            THEN Step(stack, allocated, heap, SetTop([top EXCEPT !.pc = "post", !.nlit = @ + 1]))
            ELSE IF ExpectOK(tok.k, "T_COMMA")
                 THEN Step(stack, allocated, heap,
                           SetTop([top EXCEPT !.pc = "elem", !.nlit = @ + 1]))
                 ELSE Raise(ErrExpected("T_COMMA", tok.k))

\* After an element and a line break: the terminator or the next element.
PE_AfterLf ==
    /\ At("ParseElems", "haslf")
    /\ IF tok.k = top.end
       THEN Step(stack, allocated, heap, Goto("post"))
       ELSE Quiet(stack, allocated, heap, Goto("elem"))

\* if (!push) return;
PE_Discard ==
    /\ At("ParseElems", "post")
    /\ ~top.push
    /\ Quiet(stack, allocated, heap, Pop)

PadNeeded(f) == f.numelems >= 0 /\ NumElems(f) < f.numelems

\* One iteration of the padding loop.
PE_Pad ==
    /\ At("ParseElems", "post")
    /\ top.push
    /\ PadNeeded(top)
    /\ \E eti \in GetElemOrParent(top.typeoff, NumElems(top)) :
        IF HasDefault(GetTypeInfo(eti).t)
        THEN Quiet(Append(stack, DefaultValue(GetTypeInfo(eti).t)), allocated, heap, ctl)
        ELSE Raise(ErrNoDefault)

\* The run of values the aggregate is built from.
Elems(f) == SubSeq(stack, f.stack_start + 1, Len(stack))

BelowAndElems(f) == stack

Below(f) == SubSeq(stack, 1, f.stack_start)

\* if (ti.t == V_CLASS): NewObject, Init, pop, ledger, push
PE_CommitClass ==
    /\ At("ParseElems", "post")
    /\ top.push
    /\ ~PadNeeded(top)
    /\ GetTypeInfo(top.typeoff).t = "V_CLASS"
    /\ Quiet(Append(Below(top), RefV(Len(heap) + 1)),
             Record(allocated, Len(heap) + 1),
             InitObj(heap, NewObj("object", top.typeoff, NumElems(top), Elems(top)), FALSE),
             Pop)

\* else if (ti.t == V_VECTOR): NewVec, Init, pop, ledger, push
PE_CommitVector ==
    /\ At("ParseElems", "post")
    /\ top.push
    /\ ~PadNeeded(top)
    /\ GetTypeInfo(top.typeoff).t = "V_VECTOR"
    /\ LET width == VecWidth(GetTypeInfo(GetTypeInfo(top.typeoff).subt)) IN
        Quiet(Append(Below(top), RefV(Len(heap) + 1)),
              Record(allocated, Len(heap) + 1),
              InitObj(heap, NewObj("vector", top.typeoff, NumElems(top) \div width,
                                   Elems(top)), FALSE),
              Pop)

\* else: the values stay on the stack.
PE_CommitNone ==
    /\ At("ParseElems", "post")
    /\ top.push
    /\ ~PadNeeded(top)
    /\ GetTypeInfo(top.typeoff).t \notin {"V_CLASS", "V_VECTOR"}
    /\ Quiet(stack, allocated, heap, Pop)

-----------------------------------------------------------------------------
(* ParseData: the catch block *)

ReleaseFirst(alloc, i) == alloc[1]

\* The ledger entry the i-th iteration of the release loop decrements.
ReleaseTarget(alloc, i) == alloc[i]

\* for (auto a : parser.allocated) a->Dec(vm);
Rollback ==
    /\ mode = "catch"
    /\ rb < Len(allocated)
    /\ heap' = DecObj(heap, ReleaseTarget(allocated, rb + 1))
    /\ rb' = rb + 1
    /\ UNCHANGED <<tok, inp, nwild, stack, allocated, ctl, mode, err, thrown, ret, target>>

\* Push(sp, NilVal()); Push(sp, vm.NewString(s));
ReturnError ==
    /\ mode = "catch"
    /\ rb = Len(allocated)
    /\ ret' = <<NilVal, ErrStr>>
    /\ mode' = "done"
    /\ UNCHANGED <<tok, inp, nwild, stack, allocated, heap, ctl, err, thrown, rb, target>>

Next ==
    \/ Parse_Call \/ Parse_Gobble \/ Parse_Expect
    \/ Parse_Push \/ Parse_AssertFail \/ Parse_PushUnchecked
    \/ PF_Int \/ PF_Float \/ PF_Str \/ PF_Nil \/ PF_Minus \/ PF_Negate
    \/ PF_LeftBracket \/ PF_Enum \/ PF_Ident \/ PF_Curly \/ PF_Illegal \/ PF_Return
    \/ PE_Gobble \/ PE_First \/ PE_Elem \/ PE_Sep \/ PE_AfterLf
    \/ PE_Discard \/ PE_Pad \/ PE_CommitClass \/ PE_CommitVector \/ PE_CommitNone
    \/ Rollback \/ ReturnError

Spec == Init /\ [][Next]_vars

\* ParseData runs on the calling thread with nothing to wait for: a step
\* that can be taken is taken.
FairSpec == Spec /\ WF_vars(Next)

-----------------------------------------------------------------------------
(* Properties *)

KindOf(typeoff) == GetTypeInfo(typeoff).t

Succeeded == mode = "done" /\ err = NoErr

Failed == mode = "done" /\ err # NoErr

\* The input starts with tokens of the kinds ks.
InputIs(ks) == Len(inp) >= Len(ks) /\ \A i \in 1 .. Len(ks) : inp[i].k = ks[i]

\* The input is the tokens ks and then ends, as far as the parser read it.
InputWas(ks) ==
    /\ InputIs(ks)
    /\ Len(inp) > Len(ks) => inp[Len(ks) + 1].k = "T_ENDOFFILE"
    /\ err # ErrLex

\* Errors that say the text is not a literal of the grammar.
SyntaxErrors == {"lexical error", "illegal start of expression", "expected, found"}

\* C1: when a parse has failed and ParseData has returned the error, every
\* object of the allocation ledger has been released, and no object created
\* by the parse is still outstanding.
C1_LedgerReleasedOnFailure ==
    Failed =>
        /\ \A i \in 1 .. Len(allocated) : heap[allocated[i]].freed >= 1
        /\ \A o \in DOMAIN heap : heap[o].freed >= 1

\* A failure below two levels of nesting with two objects in the ledger.
C1_Witness ==
    /\ Failed
    /\ Len(allocated) >= 2
    /\ Len(thrown) >= 4
    /\ \E i \in 1 .. Len(allocated) : heap[allocated[i]].kind # "string"

\* C2: once ParseFactor, the optional line break and end-of-input are all
\* accepted, the value stack holds exactly one value, for every target type,
\* and on success that value is the one returned.
C2_OneValueOnStack ==
    /\ At("Parse", "assert") => Len(stack) = 1
    /\ Succeeded => Len(stack) = 1 /\ ret[1] = stack[1]

\* C3: every call ends either with the parsed value and a nil error or with
\* a nil value and an error message.
C3_ValueXorError ==
    mode \in {"done", "aborted"} =>
        /\ Len(ret) = 2
        /\ \/ err = NoErr /\ ret[2] = NilVal /\ stack # <<>> /\ ret[1] = stack[Len(stack)]
           \/ err # NoErr /\ ret[1] = NilVal /\ ret[2] = ErrStr

\* Frame i of a control stack is an element of a class or struct literal
\* with push = true, read after the declared number of slots is complete.
IsExtraElem(c, i) ==
    /\ i > 1
    /\ c[i - 1].fn = "ParseElems"
    /\ c[i - 1].pc = "sep"
    /\ c[i - 1].push
    /\ IsUDT(KindOf(c[i - 1].typeoff))
    /\ c[i - 1].nlit >= c[i - 1].numelems

\* C4: an aggregate committed from a literal with more elements than its type
\* declares has exactly the declared slots, holding the first values in
\* order; each extra element is read against the wildcard type without
\* pushing, and no error other than a syntax error is raised while an extra
\* element is read.
C4_Truncation ==
    /\ \A o \in DOMAIN heap :
        heap[o].kind = "object" => Len(heap[o].elems) = GetTypeInfo(heap[o].typeoff).len
    /\ (Succeeded /\ target = "P" /\ Len(inp) >= 7 /\ inp[3].k = "T_INT"
            /\ inp[5].k = "T_FLOAT" /\ inp[6].k = "T_COMMA")
        => heap[ret[1].v].elems = <<IntV(3), FloatV(5)>>
    /\ \A i \in DOMAIN ctl :
        IsExtraElem(ctl, i) =>
            /\ ctl[i].typeoff = TYPE_ELEM_ANY
            /\ \A j \in i .. Len(ctl) : ~ctl[j].push
            /\ Len(stack) = ctl[i - 1].stack_start + ctl[i - 1].numelems
    /\ \A i \in DOMAIN thrown :
        IsExtraElem(thrown, i) => err.msg \in SyntaxErrors

\* C5: the slots a class or struct literal leaves out are filled in slot
\* order with 0, 0.0 or nil by the declared kind of the slot; a committed
\* aggregate has exactly the declared slots, each holding a value of its
\* declared kind; and the missing-default error is raised exactly at a
\* missing slot of another kind, with the aggregate left uncommitted.
HasKind(v, typeoff) ==
    CASE KindOf(typeoff) = "V_INT" -> v.t = "int"
      [] KindOf(typeoff) = "V_FLOAT" -> v.t = "float"
      [] KindOf(typeoff) = "V_NIL" -> v.t = "nil"
      [] OTHER -> v.t = "ref" /\ heap[v.v].typeoff = typeoff

SlotType(typeoff, i) == GetTypeInfo(typeoff).elemtypes[i]

C5_Padding ==
    /\ \A i \in DOMAIN ctl :
        LET f == ctl[i] IN
        (f.fn = "ParseElems" /\ f.pc = "post" /\ f.push /\ IsUDT(KindOf(f.typeoff))) =>
            /\ NumElems(f) <= f.numelems
            /\ \A n \in (f.nlit + 1) .. NumElems(f) :
                /\ KindOf(SlotType(f.typeoff, n)) \in {"V_INT", "V_FLOAT", "V_NIL"}
                /\ stack[f.stack_start + n] =
                     (CASE KindOf(SlotType(f.typeoff, n)) = "V_INT" -> IntV(0)
                        [] KindOf(SlotType(f.typeoff, n)) = "V_FLOAT" -> FloatV(0)
                        [] OTHER -> NilVal)
    /\ \A o \in DOMAIN heap :
        heap[o].kind = "object" =>
            /\ Len(heap[o].elems) = GetTypeInfo(heap[o].typeoff).len
            /\ \A n \in 1 .. Len(heap[o].elems) :
                HasKind(heap[o].elems[n], SlotType(heap[o].typeoff, n))
    /\ (At("ParseFactor", "ret") /\ top.push /\ IsStruct(vt)) =>
            NumElems(top) = GetTypeInfo(top.typeoff).len
    /\ (mode # "run" /\ err = ErrNoDefault /\ IsUDT(KindOf(thrown[Len(thrown)].typeoff))) =>
        LET f == thrown[Len(thrown)] IN
        /\ f.fn = "ParseElems" /\ f.push
        /\ NumElems(f) < f.numelems
        /\ KindOf(SlotType(f.typeoff, NumElems(f) + 1)) \notin {"V_INT", "V_FLOAT", "V_NIL"}
        /\ \A o \in DOMAIN heap :
            ~(heap[o].typeoff = f.typeoff /\ Len(stack) > f.stack_start
                /\ stack[f.stack_start + 1] = RefV(o))

\* A class object committed with one value from the literal and one default.
C5_Witness ==
    \E o \in DOMAIN heap :
        /\ heap[o].typeoff = "P"
        /\ heap[o].elems[1].v > 0
        /\ heap[o].elems[2] = FloatV(0)

\* C6: against the wildcard target type a parse raises no error other than a
\* syntax error.
C6_WildcardAccepts ==
    (target = TYPE_ELEM_ANY /\ err # NoErr) => err.msg \in SyntaxErrors

\* C7: against every target type of kind Int or Float, "-" followed by a
\* literal of that kind yields the literal's value times -1, and "--" the
\* value itself.
C7_NegationResult ==
    /\ (mode \in {"done", "aborted"} /\ KindOf(target) = "V_INT"
            /\ InputIs(<<"T_MINUS", "T_INT", "T_ENDOFFILE">>))
        => Succeeded /\ stack = <<IntV(-2)>> /\ ret[1] = IntV(-2)
    /\ (mode \in {"done", "aborted"} /\ KindOf(target) = "V_FLOAT"
            /\ InputIs(<<"T_MINUS", "T_FLOAT", "T_ENDOFFILE">>))
        => Succeeded /\ stack = <<FloatV(-2)>> /\ ret[1] = FloatV(-2)
    /\ (mode \in {"done", "aborted"} /\ KindOf(target) = "V_INT"
            /\ InputIs(<<"T_MINUS", "T_MINUS", "T_INT", "T_ENDOFFILE">>))
        => Succeeded /\ stack = <<IntV(3)>> /\ ret[1] = IntV(3)

\* C8 as stated: "-" followed by a string literal raises the unary-minus
\* error for every target type, and "-5" against a String type raises a type
\* mismatch with nothing negated.
C8_Original ==
    mode = "done" =>
        /\ InputWas(<<"T_MINUS", "T_STR">>) => err = ErrUnaryMinus
        /\ (InputWas(<<"T_MINUS", "T_INT">>) /\ KindOf(target) = "V_STRING")
            => err = ErrType("V_STRING", "V_INT") /\ stack = <<>>

\* C8 amended: "-" followed by a string literal raises the unary-minus error
\* when the target kind is String or Any and a type mismatch for every other
\* target kind; "-5" against a String type raises a type mismatch with
\* nothing pushed or negated.
C8_NegationErrors ==
    mode = "done" =>
        /\ InputWas(<<"T_MINUS", "T_STR">>) =>
            err = (IF KindOf(target) \in {"V_STRING", "V_ANY"}
                   THEN ErrUnaryMinus
                   ELSE ErrType(KindOf(target), "V_STRING"))
        /\ (InputWas(<<"T_MINUS", "T_INT">>) /\ KindOf(target) = "V_STRING")
            => err = ErrType("V_STRING", "V_INT") /\ stack = <<>>

C8_Witness ==
    /\ mode = "done"
    /\ InputWas(<<"T_MINUS", "T_STR">>)
    /\ target = TYPE_ELEM_STRING
    /\ err = ErrUnaryMinus

\* C9: after the value and at most one line break, any token but
\* end-of-input makes the parse fail with "end-of-file expected, found:
\* <token>", and the failed call returns no value.
AfterValue(f) == f.fn = "Parse" /\ f.pc \in {"gobble", "expect"}

C9_TrailingTokens ==
    /\ [](/\ (mode # "run" /\ err # NoErr /\ err # ErrLex /\ Len(thrown) = 1
              /\ AfterValue(thrown[1])) =>
                /\ tok.k # "T_ENDOFFILE"
                /\ err = ErrExpected("T_ENDOFFILE", tok.k)
                /\ mode = "done" => ret = <<NilVal, ErrStr>>
          /\ At("Parse", "assert") => tok.k = "T_ENDOFFILE")
    /\ [][((At("Parse", "gobble") /\ tok.k \notin {"T_LINEFEED", "T_ENDOFFILE"})
            \/ (At("Parse", "expect") /\ tok.k # "T_ENDOFFILE"))
          => (mode' = "catch" /\ err' = ErrExpected("T_ENDOFFILE", tok.k) /\ tok' = tok)]_vars

\* A value, a line break and one more token: the error is returned.
C9_Witness ==
    /\ mode = "done"
    /\ err = ErrExpected("T_ENDOFFILE", "T_LINEFEED")
    /\ Len(thrown) = 1 /\ thrown[1].pc = "expect"
    /\ Len(stack) = 1
    /\ ret = <<NilVal, ErrStr>>

\* C10: no ledger entry is held as an element of another ledger entry while
\* the parse runs, and no object is released more than once.
C10_ExclusiveOwnership ==
    /\ \A o \in DOMAIN heap : heap[o].freed <= 1
    /\ \A i, j \in DOMAIN allocated :
        \A n \in DOMAIN heap[allocated[j]].elems :
            heap[allocated[j]].elems[n] # RefV(allocated[i])

\* The objects a run of values refers to, directly or through elements.
RECURSIVE Reach(_)
Reach(vals) ==
    UNION {{vals[i].v} \cup Reach(heap[vals[i].v].elems) :
            i \in {n \in DOMAIN vals : vals[n].t = "ref"}}

\* C11: when a parse succeeds, every object of the allocation ledger is the
\* returned value or a transitive element of it.
C11_OwnershipTransfer ==
    Succeeded => \A i \in DOMAIN allocated : allocated[i] \in Reach(<<ret[1]>>)

\* The grammar of a vector literal as the specification states it, read one
\* token at a time: q is the place in the literal, k the next token's kind, el
\* the kind of an element token.
VecStep(q, k, el) ==
    CASE q = "start" /\ k = "T_LEFTBRACKET" -> "open"
      [] q = "open" /\ k = "T_LINEFEED" -> "openlf"
      [] q \in {"open", "openlf"} /\ k = "T_RIGHTBRACKET" -> "closed"
      [] q \in {"open", "openlf", "comma", "lf"} /\ k = el -> "elem"
      [] q = "elem" /\ k = "T_COMMA" -> "comma"
      [] q = "elem" /\ k = "T_LINEFEED" -> "lf"
      [] q \in {"elem", "lf"} /\ k = "T_RIGHTBRACKET" -> "closed"
      [] q = "elem" /\ k = el -> "unseparated"
      [] q = "comma" /\ k = "T_RIGHTBRACKET" -> "dangling"
      [] q = "closed" /\ k = "T_LINEFEED" -> "closedlf"
      [] q \in {"closed", "closedlf"} /\ k = "T_ENDOFFILE" -> "accepted"
      [] OTHER -> IF q \in {"unseparated", "dangling"} THEN q ELSE "other"

RECURSIVE VecState(_, _)
VecState(n, el) == IF n = 0 THEN "start" ELSE VecStep(VecState(n - 1, el), inp[n].k, el)

\* The kind of the tokens that are literals of the scalar type handle eto.
LiteralKind(eto) == IF eto = TYPE_ELEM_INT THEN "T_INT" ELSE "T_STR"

\* The value v is the value of the literal token t.
IsValueOf(v, t) ==
    IF t.k = "T_INT"
    THEN v = IntV(t.v)
    ELSE v.t = "ref" /\ heap[v.v].kind = "string" /\ heap[v.v].len = t.v

\* The positions of the input's tokens of kind el, in order.
ElemPos(el) ==
    LET ps == {i \in DOMAIN inp : inp[i].k = el} IN
    [j \in 1 .. Cardinality(ps) |->
        CHOOSE i \in ps : Cardinality({h \in ps : h < i}) = j - 1]

C12_WitnessRejected ==
    /\ target = "vstr"
    /\ Failed
    /\ VecState(Len(inp), "T_STR") = "dangling"

\* The objects the values vals refer to directly.
Refs(vals) == {vals[i].v : i \in {n \in DOMAIN vals : vals[n].t = "ref"}}

\* C13: in every state every object this parse allocated, and so every
\* reference on the value stack, is in the allocation ledger, exactly once.
C13_LedgerTracksAll ==
    /\ {allocated[i] : i \in DOMAIN allocated} = DOMAIN heap
    /\ \A i, j \in DOMAIN allocated : allocated[i] = allocated[j] => i = j
    /\ Refs(stack) \subseteq {allocated[i] : i \in DOMAIN allocated}

\* A class object holding a vector holding a string was committed: three
\* allocations, the last one on the stack.
C13_Witness ==
    /\ target = "Q"
    /\ Len(allocated) = 3
    /\ stack = <<RefV(allocated[3])>>
    /\ heap[allocated[3]].kind = "object"
    /\ heap[allocated[2]].kind = "vector"
    /\ heap[allocated[1]].kind = "string"

\* The element width of the vector type vto as the specification states it.
DeclaredWidth(vto) ==
    LET sti == TypeTable[TypeTable[vto].subt] IN
    IF sti.t = "V_STRUCT_S" THEN sti.len ELSE 1

\* C14: a class commit takes exactly the declared slot count of values; a
\* vector commit takes a multiple of the element width, which is not zero,
\* and the vector's length is the count divided by the width.  Stated of the
\* aggregates about to be committed and of the objects that were committed,
\* whose elems are the values taken from the stack.
C14_CommitSizes ==
    /\ (/\ mode = "run" /\ ctl # <<>>
        /\ At("ParseElems", "post") /\ top.push /\ ~PadNeeded(top)) =>
            /\ TypeTable[top.typeoff].t = "V_CLASS" =>
                NumElems(top) = TypeTable[top.typeoff].len
            /\ TypeTable[top.typeoff].t = "V_VECTOR" =>
                /\ DeclaredWidth(top.typeoff) # 0
                /\ NumElems(top) % DeclaredWidth(top.typeoff) = 0
    /\ \A o \in DOMAIN heap :
        /\ heap[o].kind = "object" =>
            /\ Len(heap[o].elems) = TypeTable[heap[o].typeoff].len
            /\ heap[o].len = TypeTable[heap[o].typeoff].len
        /\ heap[o].kind = "vector" =>
            /\ DeclaredWidth(heap[o].typeoff) # 0
            /\ heap[o].len * DeclaredWidth(heap[o].typeoff) = Len(heap[o].elems)

\* A vector of one two-slot struct was committed from two scalars.
C14_Witness ==
    /\ Succeeded
    /\ \E o \in DOMAIN heap :
        /\ heap[o].kind = "vector" /\ heap[o].typeoff = "vS"
        /\ heap[o].len = 1 /\ Len(heap[o].elems) = 2

\* Openers less closers among the first n tokens of ts.
Depth(ts, n) ==
    Cardinality({i \in 1 .. n : ts[i].k \in {"T_LEFTBRACKET", "T_LEFTCURLY"}})
        - Cardinality({i \in 1 .. n : ts[i].k \in {"T_RIGHTBRACKET", "T_RIGHTCURLY"}})

\* The tokens ts are those of one complete value: minus signs, then one
\* literal token, or one bracketed or named aggregate that closes with the
\* last token and not before.
OneValue(ts) ==
    LET m == Cardinality({i \in DOMAIN ts : \A j \in 1 .. i : ts[j].k = "T_MINUS"})
        r == SubSeq(ts, m + 1, Len(ts))
        n == Len(r)
    IN  /\ n >= 1
        /\ \/ n = 1 /\ r[1].k \in {"T_INT", "T_FLOAT", "T_STR", "T_NIL", "T_IDENT"}
           \/ /\ n >= 2
              /\ r[1].k = "T_LEFTBRACKET" /\ r[n].k = "T_RIGHTBRACKET"
              /\ Depth(r, n) = 0
              /\ \A i \in 1 .. n - 1 : Depth(r, i) >= 1
           \/ /\ n >= 3
              /\ r[1].k = "T_IDENT" /\ r[2].k = "T_LEFTCURLY" /\ r[n].k = "T_RIGHTCURLY"
              /\ Depth(r, n) = 0
              /\ \A i \in 2 .. n - 1 : Depth(r, i) >= 1

\* This step is the return, without error, of the call on top of the
\* control stack.
Returns == mode = "run" /\ mode' = "run" /\ ctl # <<>> /\ ctl' = Pop

\* The tokens the returning call consumed.
Consumed == SubSeq(inp', top.tok_in, Len(inp') - 1)

\* C15: a call of ParseFactor or ParseElems with push = false that returns
\* leaves the value stack, the ledger and the heap as they were when it was
\* called; ParseFactor has consumed the tokens of one complete value,
\* ParseElems those up to and with its terminator.
C15_DiscardLeavesState ==
    [][(Returns /\ ~top.push) =>
        /\ stack' = top.stack_in
        /\ allocated' = top.ledger_in
        /\ Len(heap') = top.heap_in
        /\ top.fn = "ParseFactor" => OneValue(Consumed)
        /\ top.fn = "ParseElems" => Consumed # <<>> /\ Consumed[Len(Consumed)].k = top.end
      ]_vars

\* An aggregate element beyond the declared count was parsed and discarded
\* while the stack held the elements before it.
C15_Witness ==
    /\ At("ParseElems", "sep")
    /\ top.push
    /\ top.numelems = 2 /\ top.nlit = 2
    /\ Len(stack) = 2
    /\ Len(inp) >= 2
    /\ inp[Len(inp) - 1].k = "T_RIGHTBRACKET"

\* What the heap holds, apart from the reference counts.
HeapShape(h) ==
    [o \in DOMAIN h |->
        [kind |-> h[o].kind, typeoff |-> h[o].typeoff, len |-> h[o].len,
         elems |-> h[o].elems]]

\* C16: once an error is raised every call of the parser is gone, and every
\* later step is a release of the next ledger entry or the return of nil and
\* the error: no token is consumed, the stack and the ledger stay as they
\* are, and no object is created.
C16_ErrorsTerminal ==
    /\ [](err # NoErr => mode \in {"catch", "done"} /\ ctl = <<>>)
    /\ [][err # NoErr =>
            /\ mode = "catch"
            /\ UNCHANGED <<tok, inp, stack, allocated, ctl, err>>
            /\ HeapShape(heap') = HeapShape(heap)
            /\ \/ /\ rb' = rb + 1 /\ rb' <= Len(allocated)
                  /\ mode' = "catch" /\ ret' = ret
               \/ /\ mode' = "done" /\ ret' = <<NilVal, ErrStr>>
                  /\ heap' = heap /\ rb' = rb
          ]_vars

\* An error inside a vector whose first element was already allocated: the
\* element was released and the error returned, and no vector exists.
C16_Witness ==
    /\ Failed
    /\ Len(allocated) = 1 /\ rb = 1
    /\ Len(stack) = 1
    /\ Len(thrown) >= 3
    /\ thrown[3].fn = "ParseElems" /\ thrown[3].push
    /\ GetTypeInfo(thrown[3].typeoff).t = "V_VECTOR"
    /\ \A o \in DOMAIN heap : heap[o].kind = "string"

\* The number of stack entries one value of the type handle typeoff takes.
SlotsOf(typeoff) ==
    IF KindOf(typeoff) = "V_STRUCT_S" THEN TypeTable[typeoff].len ELSE 1

\* C17: a call of ParseFactor with push = true that returns leaves the stack
\* entries below it as they were and adds one entry for a scalar, vector or
\* class type and the declared slot count for a struct type; the commit of a
\* struct changes neither stack, ledger nor heap, and the commit of a class or
\* vector replaces exactly the values pushed since the aggregate started by
\* the one new object, which holds them and is added to the ledger.
C17_NetStackEffect ==
    [][/\ (Returns /\ top.push /\ top.fn = "ParseFactor" /\ KindOf(top.typeoff) # "V_ANY") =>
            /\ Len(stack') = Len(top.stack_in) + SlotsOf(top.typeoff)
            /\ SubSeq(stack', 1, Len(top.stack_in)) = top.stack_in
       /\ (Returns /\ top.push /\ top.fn = "ParseElems"
           /\ KindOf(top.typeoff) = "V_STRUCT_S") =>
            /\ stack' = stack /\ allocated' = allocated /\ heap' = heap
            /\ SubSeq(stack, 1, Len(top.stack_in)) = top.stack_in
       /\ (Returns /\ top.push /\ top.fn = "ParseElems"
           /\ KindOf(top.typeoff) \in {"V_CLASS", "V_VECTOR"}) =>
            /\ Len(heap') = Len(heap) + 1
            /\ allocated' = Append(allocated, Len(heap'))
            /\ stack' = Append(top.stack_in, RefV(Len(heap')))
            /\ stack = top.stack_in \o heap'[Len(heap')].elems
            /\ \A o \in DOMAIN heap : HeapShape(heap')[o] = HeapShape(heap)[o]
      ]_vars

\* The second struct element of a vector of structs has returned: its two
\* slots lie above the two of the first one.
C17_Witness ==
    /\ At("ParseElems", "sep")
    /\ top.typeoff = "vS" /\ top.push
    /\ top.nlit = 1
    /\ Len(stack) = 4

\* C18: every parse runs to completion and ends in success or in an error.
\* (The loops do make progress and every parse stops, see C18_Stops and
\* C18_Progress below; a parse that stops at the assertion of Parse ends in
\* neither.)
C18_Termination == <>(Succeeded \/ Failed)

\* Every parse stops: with a result, or at the failed assertion of Parse.
C18_Stops == <>(mode # "run" /\ ~ENABLED Next)

\* Each call of ParseFactor that returns has consumed a token, each turn of
\* the element loop has too, and each turn of the padding loop pushes one
\* value or raises.
C18_Progress ==
    [][/\ (Returns /\ top.fn = "ParseFactor") => Len(inp') - 1 >= top.tok_in
       /\ At("ParseElems", "elem") => top.tok_in + top.nlit <= Len(inp)
       /\ (At("ParseElems", "post") /\ top.push /\ PadNeeded(top)) =>
            \/ mode' = "catch" /\ err' = ErrNoDefault /\ stack' = stack
            \/ mode' = "run" /\ Len(stack') = Len(stack) + 1 /\ inp' = inp
      ]_vars

====
